---- MODULE Spec2Model ----
(***************************************************************************)
(* Model of src/main.py: the Ethereum TVL command-line tool.               *)
(*                                                                         *)
(* One run of the program is a sequential state machine                    *)
(*   ParseArgs -> Fetch -> Filter -> Display -> Walk* -> (table) -> Plot   *)
(* ending in "Exited" (main returned) or "Crashed" (an exception left      *)
(* main).  Date-times are whole seconds, naive local ones on the clock of  *)
(* the zone the process runs in.  Amounts are whole cents.  A figure of    *)
(* the API is a double, kept as the cents below it and the position of     *)
(* the rest against half a cent.  A command-line argument is the sequence  *)
(* of its Unicode code points.                                             *)
(***************************************************************************)
EXTENDS Integers, Sequences, FiniteSets, TLC

VARIABLES
    pc,            \* position of the run in main / display_data
    argv,          \* the command-line arguments after the program name
    zone,          \* the local time zone of the process
    months,        \* args.months (0 until parsed)
    http_gets,     \* number of requests.get calls issued so far
    response,      \* what the API answered to the GET
    fetch_result,  \* "unset", "None" or "list": what fetch_ethereum_tvl returned
    all_data,      \* main's all_data when it is a list
    now,           \* the value datetime.now() returned in filter_data_by_months
    filtered_data, \* main's filtered_data, the list display_data and plot_tvl_data get
    last_date,     \* display_data's last_date
    current_date,  \* display_data's current_date (the walk position)
    sampled_data,  \* display_data's local list filtered_data (the sampled records)
    stdout,        \* kinds of the lines printed so far
    stderr,        \* kinds of the messages written to standard error so far
    table,         \* the table rows printed so far
    chart_files,   \* the image files written by plt.savefig
    exception,     \* the exception that left main, "none" if none
    exit_status    \* the process exit status, -1 while running

vars == <<pc, argv, zone, months, http_gets, response, fetch_result, all_data, now,
          filtered_data, last_date, current_date, sampled_data, stdout, stderr,
          table, chart_files, exception, exit_status>>

----------------------------------------------------------------------------
(* Bounds of the model *)

\* longest arbitrary API payload
MaxEntries == 2
\* API timestamps lie on a half-day grid 0 .. MaxHalfDays half days
MaxHalfDays == 3
\* longest payload of records spaced one day apart
MaxDaily == 4
\* longest series handed directly to display_data
MaxSeries == 4
\* longest such series in the runs checked for termination
MaxFairSeries == 2
\* dates of those series lie on a half-day grid 0 .. MaxSamplerHalfDays
MaxSamplerHalfDays == 14

----------------------------------------------------------------------------
(* Date arithmetic: datetime and timedelta in whole seconds *)

SecondsPerHour == 60 * 60
SecondsPerDay == 24 * SecondsPerHour
HalfDay == SecondsPerDay \div 2

\* timedelta(days=n)
timedelta_days(n) == n * SecondsPerDay

\* timedelta.days: a timedelta is normalised to days + a non-negative rest,
\* so .days is the floor of the difference in days (-1 for minus one hour)
delta_days(delta) == delta \div SecondsPerDay

\* abs() of a timedelta or of an int
Abs(x) == IF x < 0 THEN 0 - x ELSE x

\* A zone is the offset of its clock from UTC before and from a change of
\* that offset on (the start or the end of daylight-saving time).
\* UTC itself
Utc == [before |-> 0, after |-> 0, change |-> 0]

\* five hours behind UTC the year round
West == [before |-> 0 - 5 * SecondsPerHour, after |-> 0 - 5 * SecondsPerHour, change |-> 0]

\* the instant the clocks of the zones below are set back or forward
ClockChange == SecondsPerDay + HalfDay + SecondsPerHour

\* summer time, two hours ahead of UTC, ends: the clock is set back an hour
FallBack == [before |-> 2 * SecondsPerHour, after |-> SecondsPerHour, change |-> ClockChange]

\* summer time begins: the clock is set forward an hour
SpringForward == [before |-> SecondsPerHour, after |-> 2 * SecondsPerHour, change |-> ClockChange]

Zones == {Utc, West, FallBack, SpringForward}

\* the offset of the zone's clock from UTC at the instant ts
utcoffset(tz, ts) == IF ts < tz.change THEN tz.before ELSE tz.after

\* datetime.fromtimestamp(ts): Unix seconds to the naive date-time the clock
\* of the local zone shows at that instant
fromtimestamp(tz, ts) == ts + utcoffset(tz, ts)

\* where the part of a figure beyond its whole cents lies
Rests == {"none", "under_half", "half", "over_half"}

\* round(float(x), 2): the double to the nearest cent.  figure.cents is the
\* number of whole cents below or at the double's value, figure.rest says how
\* the remainder compares with half a cent; the double exactly half way
\* between two cents (as 0.125 is) goes to the even one
round2(figure) ==
    IF figure.rest \in {"none", "under_half"} THEN figure.cents
    ELSE IF figure.rest = "over_half" THEN figure.cents + 1
    ELSE IF figure.cents % 2 = 0 THEN figure.cents ELSE figure.cents + 1

----------------------------------------------------------------------------
(* fetch_ethereum_tvl *)

FailureKinds == {"connection_error", "http_error", "invalid_json", "malformed_entry"}

\* the loop of lines 18-28 over a well-formed JSON array
ProcessEntries(tz, body) ==
    [i \in 1..Len(body) |->
        [date |-> fromtimestamp(tz, body[i].date), tvl |-> round2(body[i].tvl)]]

\* what fetch_ethereum_tvl returns for a response
fetch_ethereum_tvl(tz, resp) ==
    IF resp.kind \in FailureKinds
    THEN [result |-> "None", data |-> <<>>, printed |-> <<"error">>]
    ELSE [result |-> "list", data |-> ProcessEntries(tz, resp.body), printed |-> <<>>]

----------------------------------------------------------------------------
(* filter_data_by_months and the sort of main *)

RECURSIVE SelectSeq2(_, _)
\* [d for d in data if d['date'] >= cutoff_date]
SelectSeq2(data, cutoff_date) ==
    IF data = <<>> THEN <<>>
    ELSE LET rest == SelectSeq2(Tail(data), cutoff_date)
         IN  IF Head(data).date >= cutoff_date THEN <<Head(data)>> \o rest ELSE rest

RECURSIVE SelectLater(_, _)
SelectLater(data, cutoff_date) ==
    IF data = <<>> THEN <<>>
    ELSE LET rest == SelectLater(Tail(data), cutoff_date)
         IN  IF Head(data).date > cutoff_date THEN <<Head(data)>> \o rest ELSE rest

\* variant: the comparison written d['date'] > cutoff_date
filter_data_by_months_strict(data, m, t) ==
    IF data = <<>> THEN <<>>
    ELSE SelectLater(data, t - timedelta_days(30 * m))

filter_data_by_months(data, m, t) ==
    IF data = <<>> THEN <<>>
    ELSE SelectSeq2(data, t - timedelta_days(30 * m))

\* insert e behind every element whose date is not later
RECURSIVE InsertByDate(_, _)
InsertByDate(e, s) ==
    IF s = <<>> THEN <<e>>
    ELSE IF Head(s).date <= e.date THEN <<Head(s)>> \o InsertByDate(e, Tail(s))
    ELSE <<e>> \o s

RECURSIVE sort_by_date(_)
\* list.sort(key=lambda x: x['date']): stable, ascending
sort_by_date(s) ==
    IF s = <<>> THEN <<>>
    ELSE InsertByDate(s[Len(s)], sort_by_date(SubSeq(s, 1, Len(s) - 1)))

----------------------------------------------------------------------------
(* get_display_interval *)

\* variant: the steps of 3 and 6 months exchanged
get_display_interval_swapped(m) ==
    IF m = 3 THEN <<3, "Daily">>
    ELSE IF m = 6 THEN <<1, "Every 3 Days">>
    ELSE <<7, "Weekly">>

get_display_interval(m) ==
    IF m = 3 THEN <<1, "Daily">>
    ELSE IF m = 6 THEN <<3, "Every 3 Days">>
    ELSE <<7, "Weekly">>

----------------------------------------------------------------------------
(* int(): the type= conversion of the positional argument (line 142) *)

\* the code points of the digit zero of every Unicode decimal script; the ten
\* digits of a script follow one another
DigitZeros ==
    {48, 1632, 1776, 1984, 2406, 2534, 2662, 2790, 2918, 3046, 3174, 3302, 3430,
     3558, 3664, 3792, 3872, 4160, 4240, 6112, 6160, 6470, 6608, 6784, 6800,
     6992, 7088, 7232, 7248, 42528, 43216, 43264, 43472, 43504, 43600, 44016,
     65296, 66720, 68912, 69734, 69872, 69942, 70096, 70384, 70736, 70864,
     71248, 71360, 71472, 71904, 72016, 72784, 73040, 73120, 92768, 92864,
     93008, 120782, 120792, 120802, 120812, 120822, 123200, 123632, 125264,
     130032}

\* the white space int() strips from both ends of its argument
WhiteSpace ==
    {9, 10, 11, 12, 13, 32, 133, 160, 5760} \cup (8192..8202)
        \cup {8232, 8233, 8239, 8287, 12288}

\* sys.get_int_max_str_digits(): int() refuses a string of more digits
MaxStrDigits == 4300

\* the characters "+" and "-"
SignChars == {43, 45}

\* the characters of the argument syntax, by code point
Minus == 45
Underscore == 95
Equals == 61
Space == 32
Dot == 46
NewLine == 10

IsDigit(c) == \E z \in DigitZeros : c \in z..(z + 9)

DigitValue(c) == c - (CHOOSE z \in DigitZeros : c \in z..(z + 9))

\* str.strip(): the token without the white space at its ends
strip(token) ==
    LET inked == {i \in 1..Len(token) : token[i] \notin WhiteSpace}
    IN  IF inked = {} THEN <<>>
        ELSE SubSeq(token, CHOOSE i \in inked : \A j \in inked : i <= j,
                           CHOOSE i \in inked : \A j \in inked : i >= j)

\* the stripped token without its sign
unsigned(token) ==
    LET s == strip(token)
    IN  IF s # <<>> /\ s[1] \in SignChars THEN Tail(s) ELSE s

\* whether int(token) succeeds: optional white space, an optional sign, then
\* decimal digits of any script, single underscores allowed between digits,
\* and no more digits than MaxStrDigits (leading zeros count)
IsIntLiteral(token) ==
    LET d == unsigned(token)
    IN  /\ d # <<>>
        /\ IsDigit(d[1])
        /\ IsDigit(d[Len(d)])
        /\ \A i \in 1..Len(d) :
             IsDigit(d[i]) \/ (d[i] = Underscore /\ d[i + 1] # Underscore)
        /\ Cardinality({i \in 1..Len(d) : d[i] # Underscore}) <= MaxStrDigits

RECURSIVE digits_value(_)
\* the number a run of digits and underscores writes
digits_value(d) ==
    IF d = <<>> THEN 0
    ELSE LET front == digits_value(SubSeq(d, 1, Len(d) - 1))
         IN  IF d[Len(d)] = Underscore THEN front
             ELSE 10 * front + DigitValue(d[Len(d)])

\* int(token) of a token int() accepts
int(token) ==
    IF strip(token)[1] = Minus THEN 0 - digits_value(unsigned(token))
    ELSE digits_value(unsigned(token))

----------------------------------------------------------------------------
(* parser.parse_args: argparse with the option -h/--help and one positional, *)
(* type=int, choices=[3, 6, 12]                                              *)

\* "-h", "--help" and the separator "--"
HelpShort == <<45, 104>>
HelpLong == <<45, 45, 104, 101, 108, 112>>
Separator == <<45, 45>>

MonthChoices == {3, 6, 12}

IsPrefix(p, s) == Len(p) <= Len(s) /\ SubSeq(s, 1, Len(p)) = p

Contains(token, c) == \E i \in 1..Len(token) : token[i] = c

\* the part of the token before its first c, the whole token if it has none
Before(token, c) ==
    IF Contains(token, c)
    THEN SubSeq(token, 1, (CHOOSE i \in 1..Len(token) :
                              token[i] = c /\ \A j \in 1..(i - 1) : token[j] # c) - 1)
    ELSE token

AllDigits(s) == \A i \in 1..Len(s) : IsDigit(s[i])

\* argparse's pattern for a negative number, ^-\d+$|^-\d*\.\d+$ : $ also
\* matches in front of a closing newline
looks_negative(token) ==
    LET t == IF token # <<>> /\ token[Len(token)] = NewLine
             THEN SubSeq(token, 1, Len(token) - 1) ELSE token
        r == Tail(t)
    IN  /\ Len(t) >= 2
        /\ t[1] = Minus
        /\ \/ AllDigits(r)
           \/ \E k \in 1..(Len(r) - 1) :
                /\ r[k] = Dot
                /\ AllDigits(SubSeq(r, 1, k - 1))
                /\ AllDigits(SubSeq(r, k + 1, Len(r)))

\* the characters of a token that starts with "-h" which argparse reads as
\* further single-dash flags: those behind "-h=" or else those behind "-h"
flags_after_help(token) ==
    IF Len(token) >= 3 /\ token[3] = Equals THEN SubSeq(token, 4, Len(token))
    ELSE SubSeq(token, 3, Len(token))

\* _parse_optional and the option's action: "A" for a positional argument,
\* "help" for an option string that runs the help action, "error" for one that
\* hands the help action an argument, "unknown" for any other option string
parse_optional(token) ==
    IF token = <<>> \/ token[1] # Minus THEN "A"
    ELSE IF token = HelpShort \/ token = HelpLong THEN "help"
    ELSE IF Len(token) = 1 THEN "A"
    ELSE IF token[2] = Minus /\ IsPrefix(Before(token, Equals), HelpLong)
    THEN (IF Contains(token, Equals) THEN "error" ELSE "help")
    ELSE IF token[2] # Minus /\ IsPrefix(HelpShort, token)
    THEN (IF /\ flags_after_help(token) # <<>>
             /\ \A i \in 1..Len(flags_after_help(token)) :
                  flags_after_help(token)[i] = HelpShort[2]
          THEN "help" ELSE "error")
    ELSE IF looks_negative(token) THEN "A"
    ELSE IF Contains(token, Space) THEN "A"
    ELSE "unknown"

\* the pattern of the arguments: "-" for the first "--", "A" for everything
\* behind it
arg_pattern(args) ==
    LET seps == {i \in 1..Len(args) : args[i] = Separator}
        sep == IF seps = {} THEN Len(args) + 1
               ELSE CHOOSE i \in seps : \A j \in seps : i <= j
    IN  [i \in 1..Len(args) |->
            IF i = sep THEN "-" ELSE IF i > sep THEN "A" ELSE parse_optional(args[i])]

UsageError == [ok |-> FALSE, months |-> 0, code |-> 2, printed |-> "usage"]

HelpExit == [ok |-> FALSE, months |-> 0, code |-> 0, printed |-> "help"]

\* variant: the positional declared without choices=[3, 6, 12]
check_value_any(value) == TRUE

\* _check_value: the converted value is one of the choices
check_value(value) == value \in MonthChoices

RECURSIVE consume(_, _, _, _, _)
\* _parse_known_args from argument i on; got is the month count already
\* taken (0 for none), extras whether an argument was left over
consume(args, pattern, i, got, extras) ==
    IF i > Len(args)
    THEN (IF got = 0 \/ extras THEN UsageError
          ELSE [ok |-> TRUE, months |-> got, code |-> 0, printed |-> "none"])
    ELSE IF pattern[i] = "help" THEN HelpExit
    ELSE IF pattern[i] = "error" THEN UsageError
    ELSE IF pattern[i] = "unknown" THEN consume(args, pattern, i + 1, got, TRUE)
    ELSE LET j == IF pattern[i] = "-" THEN i + 1 ELSE i
         IN  IF got = 0 /\ j <= Len(args) /\ pattern[j] = "A"
             THEN (IF IsIntLiteral(args[j]) /\ check_value(int(args[j]))
                   THEN consume(args, pattern,
                                IF j < Len(args) /\ pattern[j + 1] = "-" THEN j + 2 ELSE j + 1,
                                int(args[j]), extras)
                   ELSE UsageError)
             ELSE consume(args, pattern, i + 1, got, TRUE)

\* parse_args: the parsed month count, or the SystemExit code argparse raises
\* (0 after the help text, 2 after a usage error)
parse_args(args) == consume(args, arg_pattern(args), 1, 0, FALSE)

\* the status the interpreter exits with when main returns normally
ExitAfterReturn == 0

\* the status the interpreter exits with when an exception leaves main
ExitAfterTraceback == 1

----------------------------------------------------------------------------
(* display_data: the sampling walk and the table *)

\* variant: max written for min
closest_index_farthest(data, current) ==
    CHOOSE i \in 1..Len(data) :
        \A j \in 1..Len(data) :
            LET di == Abs(data[i].date - current)
                dj == Abs(data[j].date - current)
            IN  di > dj \/ (di = dj /\ i <= j)

\* index of min(data, key=lambda x: abs(x['date'] - current)): the first
\* element with the least distance
closest_index(data, current) ==
    CHOOSE i \in 1..Len(data) :
        \A j \in 1..Len(data) :
            LET di == Abs(data[i].date - current)
                dj == Abs(data[j].date - current)
            IN  di < dj \/ (di = dj /\ i <= j)

closest_entry(data, current) == data[closest_index(data, current)]

\* abs((closest_entry['date'] - current_date).days) <= 1
within_tolerance(entry, current) == Abs(delta_days(entry.date - current)) <= 1

\* variant: an empty list returns early instead of being indexed
display_start_guarded(data) ==
    IF data = <<>>
    THEN [raised |-> FALSE, last_date |-> 0, current_date |-> 1]
    ELSE [raised |-> FALSE, last_date |-> data[Len(data)].date,
          current_date |-> data[1].date]

\* variant: the walk set up from data[-1] to data[0]
display_start_swapped(data) ==
    IF data = <<>>
    THEN [raised |-> TRUE, last_date |-> 0, current_date |-> 0]
    ELSE [raised |-> FALSE, last_date |-> data[1].date,
          current_date |-> data[Len(data)].date]

\* lines 96-97: data[-1] and data[0]; indexing an empty list raises IndexError
display_start(data) ==
    IF data = <<>>
    THEN [raised |-> TRUE, last_date |-> 0, current_date |-> 0]
    ELSE [raised |-> FALSE, last_date |-> data[Len(data)].date,
          current_date |-> data[1].date]

\* lines 101-103: the sampled list after the visit of one walk position
visit(sampled, data, current) ==
    LET entry == closest_entry(data, current)
    IN  IF within_tolerance(entry, current) THEN Append(sampled, entry) ELSE sampled

\* line 104: current_date += timedelta(days=interval_days)
next_position(current, m) == current + timedelta_days(get_display_interval(m)[1])

\* strftime('%Y-%m-%d'): the calendar day, as a day number
strftime_day(date) == date \div SecondsPerDay

Sign(x) == IF x > 0 THEN 1 ELSE IF x < 0 THEN 0 - 1 ELSE 0

\* the sign of ((tvl - prev_tvl) / prev_tvl) * 100
change_sign(tvl, prev) == Sign(tvl - prev) * Sign(prev)

\* whether f"{change_pct:+.2f}" starts with "-": a negative value, or the
\* negative zero a zero difference divided by a negative amount gives
change_minus(tvl, prev) == change_sign(tvl, prev) < 0 \/ (tvl = prev /\ prev < 0)

\* twice the error, in units of 1/Abs(prev) hundredths of a percent, that the
\* double arithmetic of line 115 can add to the exact quotient: the two
\* amounts, the difference, the quotient and the product are each rounded to
\* 53 bits
double_slack(tvl, prev) ==
    ((2 * (10000 * (Abs(tvl) + Abs(prev)) + 5 * Abs(tvl - prev) * 10000))
        \div 2^26) \div 2^27

\* the digits f"{change_pct:+.2f}" can show, as hundredths of a percent: the
\* hundredths no further from the exact quotient than half a hundredth and
\* the error of the double arithmetic.  A quotient half way between two
\* hundredths, or nearer to that than the error, is printed as either
\* neighbour; for amounts below a hundred million dollars the error is less
\* than any distance short of a tie
change_hundredths(tvl, prev) ==
    LET n == Abs(tvl - prev) * 10000
        d == Abs(prev)
        q == n \div d
        slack == double_slack(tvl, prev)
        k == slack \div d + 1
    IN  {h \in (q - k)..(q + k + 1) :
            h >= 0 /\ Abs(2 * (h * d - n)) <= d + slack}

\* the forms row i of the table can take (lines 108-120); i > 1 needs a
\* non-zero previous amount
table_row(s, i) ==
    IF i > 1
    THEN {[date |-> strftime_day(s[i].date), tvl |-> s[i].tvl, placeholder |-> FALSE,
           sign |-> change_sign(s[i].tvl, s[i-1].tvl),
           minus |-> change_minus(s[i].tvl, s[i-1].tvl),
           change |-> c] : c \in change_hundredths(s[i].tvl, s[i-1].tvl)}
    ELSE {[date |-> strftime_day(s[i].date), tvl |-> s[i].tvl, placeholder |-> TRUE,
           sign |-> 0, minus |-> FALSE, change |-> 0]}

\* the rows i at which the division by prev_tvl raises ZeroDivisionError
ZeroDivisionRows(s) == {i \in 2..Len(s) : s[i-1].tvl = 0}

\* number of rows printed before the loop ends or raises
rows_printed(s) ==
    IF ZeroDivisionRows(s) = {} THEN Len(s)
    ELSE (CHOOSE i \in ZeroDivisionRows(s) : \A j \in ZeroDivisionRows(s) : i <= j) - 1

RECURSIVE tables(_, _)
\* the tables of the first n rows the loop can print
tables(s, n) ==
    IF n = 0 THEN {<<>>}
    ELSE {Append(t, row) : t \in tables(s, n - 1), row \in table_row(s, n)}

----------------------------------------------------------------------------
(* plot_tvl_data *)

\* entry['tvl'] / 1e9: the amount in billions, kept as amount and divisor
billions(tvl) == [amount |-> tvl, per |-> "1e9"]

\* the points handed to plt.plot (lines 58-62, 77)
plot_points(data) ==
    [i \in 1..Len(data) |-> [date |-> data[i].date, tvl |-> billions(data[i].tvl)]]

\* the file plt.savefig writes (line 83)
chart_file(data, m) ==
    [name |-> <<"eth_tvl_", m, "m.png">>,
     title |-> <<m, get_display_interval(m)[2]>>,
     points |-> plot_points(data)]

----------------------------------------------------------------------------
(* main *)

\* variant: the test written `if all_data is not None:`
truthy_not_none(result, data) == result = "list"

\* `if all_data:` (line 160): neither None nor an empty list
truthy(result, data) == result = "list" /\ data # <<>>

\* variant: the chart drawn from the sampled records
plotted_series_sampled == sampled_data

\* the list main hands to plot_tvl_data (line 168)
plotted_series == filtered_data


----------------------------------------------------------------------------
(* Inputs *)

\* the decimal argument for a month count: "3", "6", "12"
MonthArgv(m) ==
    IF m = 3 THEN << <<51>> >> ELSE IF m = 6 THEN << <<54>> >> ELSE << <<49, 50>> >>

\* the command lines of the runs that go through the whole pipeline
ArgvInputs == {MonthArgv(m) : m \in MonthChoices}

\* one digit more than int() takes: zeros and a closing 3
LongToken == [i \in 1..(MaxStrDigits + 1) |-> IF i <= MaxStrDigits THEN 48 ELSE 51]

\* command lines of every kind the parser tells apart: none, "3", "6", "12",
\* "03", "5", "0", "abc", "3.0", "", "3 6", "-h", "--help", "--he", "--help=1",
\* "-hh", "-hx", "-h=h", "-h=", "-h=x", "3 -h=h", "3 -h", "5 -h", "3 --help", "3 6 -h", "-- 3", "3 --", "--",
\* "-- -h", "+3", "+6", "-3", "-3 -h", "-x", "-x 3", "-x -h", " 3", "3 ",
\* "1_2", "1__2", "_3", Arabic-Indic 3, full-width 6, full-width 5, and a
\* token of MaxStrDigits zeros and a 3
ParserArgvInputs ==
    ArgvInputs \cup
    { <<>>, << <<48, 51>> >>, << <<53>> >>, << <<48>> >>, << <<97, 98, 99>> >>,
      << <<51, 46, 48>> >>, << <<>> >>, << <<51>>, <<54>> >>,
      << HelpShort >>, << HelpLong >>, << <<45, 45, 104, 101>> >>,
      << <<45, 45, 104, 101, 108, 112, 61, 49>> >>,
      << <<45, 104, 104>> >>, << <<45, 104, 120>> >>,
      << <<45, 104, 61, 104>> >>, << <<45, 104, 61>> >>, << <<45, 104, 61, 120>> >>,
      << <<51>>, <<45, 104, 61, 104>> >>, << LongToken >>,
      << <<51>>, HelpShort >>, << <<53>>, HelpShort >>, << <<51>>, HelpLong >>,
      << <<51>>, <<54>>, HelpShort >>,
      << Separator, <<51>> >>, << <<51>>, Separator >>, << Separator >>,
      << Separator, HelpShort >>,
      << <<43, 51>> >>, << <<43, 54>> >>, << <<45, 51>> >>, << <<45, 51>>, HelpShort >>,
      << <<45, 120>> >>, << <<45, 120>>, <<51>> >>, << <<45, 120>>, HelpShort >>,
      << <<32, 51>> >>, << <<51, 32>> >>,
      << <<49, 95, 50>> >>, << <<49, 95, 95, 50>> >>, << <<95, 51>> >>,
      << <<1635>> >>, << <<65302>> >>, << <<65301>> >> }

\* Unix timestamps of the API's entries
Timestamps == {k * HalfDay : k \in 0..MaxHalfDays}

\* the API's figures: 0, 1.006 (1.01 rounded) and 2.375, a double exactly
\* half way between two cents (2.38 rounded)
TvlInputs ==
    {[cents |-> 0, rest |-> "none"], [cents |-> 100, rest |-> "over_half"],
     [cents |-> 237, rest |-> "half"]}

ApiEntries == [date : Timestamps, tvl : TvlInputs]

ArbitraryBodies == UNION {[1..n -> ApiEntries] : n \in 0..MaxEntries}

DailyStarts == {0, HalfDay}

\* how the figures of a daily payload rise: by a dollar and a half a day, by a
\* cent a day from 0.32 on (33 against 32 cents is a change of 3.125 percent,
\* half way between two hundredths), or by amounts so small that rounding
\* makes neighbours equal
DailyShapes == {"steep", "cent", "flat"}

\* the i-th figure of a daily payload
DailyFigure(shape, i) ==
    IF shape = "steep" THEN [cents |-> 100 + 150 * (i - 1), rest |-> "under_half"]
    ELSE IF shape = "cent" THEN [cents |-> 32 + (i - 1), rest |-> "under_half"]
    ELSE [cents |-> 100 + ((i - 1) \div 2),
          rest |-> IF (i - 1) % 2 = 0 THEN "over_half" ELSE "under_half"]

Reverse(s) == [i \in 1..Len(s) |-> s[Len(s) + 1 - i]]

\* n entries one day apart with rising figures
DailyBody(start, n, shape) ==
    [i \in 1..n |-> [date |-> start + timedelta_days(i - 1), tvl |-> DailyFigure(shape, i)]]

DailyBodies ==
    LET up == {DailyBody(start, n, shape) :
                 start \in DailyStarts, n \in 3..MaxDaily, shape \in DailyShapes}
    IN  up \cup {Reverse(b) : b \in up}

NoResponse == [kind |-> "none", body |-> <<>>]

Responses ==
    [kind : FailureKinds, body : {<<>>}]
        \cup [kind : {"ok"}, body : ArbitraryBodies \cup DailyBodies]

\* the answers given to the runs that explore the command line
FewResponses ==
    {[kind |-> "http_error", body |-> <<>>], [kind |-> "ok", body |-> <<>>],
     [kind |-> "ok", body |-> DailyBody(0, MaxDaily, "steep")]}

\* the instant at which the cutoff of a run whose window matches its clock falls
CutoffAnchor == SecondsPerDay

\* the instants at which datetime.now() is called
ClockInputs == {CutoffAnchor + timedelta_days(30 * m) : m \in MonthChoices}

----------------------------------------------------------------------------
(* The run of main *)

InitWith(argvs) ==
    /\ pc = "ParseArgs"
    /\ argv \in argvs
    /\ zone \in Zones
    /\ months = 0
    /\ http_gets = 0
    /\ response = NoResponse
    /\ fetch_result = "unset"
    /\ all_data = <<>>
    /\ now = 0
    /\ filtered_data = <<>>
    /\ last_date = 0
    /\ current_date = 0
    /\ sampled_data = <<>>
    /\ stdout = <<>>
    /\ stderr = <<>>
    /\ table = <<>>
    /\ chart_files = {}
    /\ exception = "none"
    /\ exit_status = -1

Init == InitWith(ArgvInputs)

\* lines 151-156
ParseArgs ==
    /\ pc = "ParseArgs"
    /\ LET r == parse_args(argv)
       IN  IF r.ok
           THEN /\ months' = r.months
                /\ stdout' = Append(stdout, "fetching")
                /\ pc' = "Fetch"
                /\ UNCHANGED <<stderr, exit_status>>
           ELSE /\ IF r.printed = "help"
                   THEN stdout' = Append(stdout, "help") /\ UNCHANGED stderr
                   ELSE stderr' = Append(stderr, "usage") /\ UNCHANGED stdout
                /\ pc' = "Exited"
                /\ exit_status' = ExitAfterReturn
                /\ UNCHANGED months
    /\ UNCHANGED <<argv, zone, http_gets, response, fetch_result, all_data, now,
                   filtered_data, last_date, current_date, sampled_data, table,
                   chart_files, exception>>

\* lines 159-160, the API answering with one of the responses
FetchFrom(responses) ==
    /\ pc = "Fetch"
    /\ \E resp \in responses :
         LET r == fetch_ethereum_tvl(zone, resp)
         IN  /\ http_gets' = http_gets + 1
             /\ response' = resp
             /\ fetch_result' = r.result
             /\ all_data' = r.data
             /\ stdout' = stdout \o r.printed
             /\ IF truthy(r.result, r.data)
                THEN pc' = "Filter" /\ UNCHANGED exit_status
                ELSE pc' = "Exited" /\ exit_status' = ExitAfterReturn
    /\ UNCHANGED <<argv, zone, months, now, filtered_data, last_date, current_date,
                   sampled_data, stderr, table, chart_files, exception>>

Fetch == FetchFrom(Responses)

\* lines 161-162
Filter ==
    /\ pc = "Filter"
    /\ \E t \in ClockInputs :
         /\ now' = fromtimestamp(zone, t)
         /\ filtered_data' = sort_by_date(filter_data_by_months(all_data, months, now'))
    /\ pc' = "Display"
    /\ UNCHANGED <<argv, zone, months, http_gets, response, fetch_result, all_data,
                   last_date, current_date, sampled_data, stdout, stderr, table,
                   chart_files, exception, exit_status>>

\* lines 88-97
DisplayStart ==
    /\ pc = "Display"
    /\ stdout' = stdout \o <<"title", "columns", "rule">>
    /\ LET d == display_start(filtered_data)
       IN  IF d.raised
           THEN /\ pc' = "Crashed"
                /\ exception' = "IndexError"
                /\ stderr' = Append(stderr, "traceback")
                /\ exit_status' = ExitAfterTraceback
                /\ UNCHANGED <<last_date, current_date, sampled_data>>
           ELSE /\ pc' = "Walk"
                /\ last_date' = d.last_date
                /\ current_date' = d.current_date
                /\ sampled_data' = <<>>
                /\ UNCHANGED <<stderr, exception, exit_status>>
    /\ UNCHANGED <<argv, zone, months, http_gets, response, fetch_result, all_data, now,
                   filtered_data, table, chart_files>>

\* lines 99-104: one iteration of the while loop
WalkStep ==
    /\ pc = "Walk"
    /\ current_date <= last_date
    /\ sampled_data' = visit(sampled_data, filtered_data, current_date)
    /\ current_date' = next_position(current_date, months)
    /\ UNCHANGED <<pc, argv, zone, months, http_gets, response, fetch_result, all_data,
                   now, filtered_data, last_date, stdout, stderr, table, chart_files,
                   exception, exit_status>>

\* lines 107-120: the loop over the sampled records, to its end or to the
\* first division by a zero amount
PrintTable ==
    /\ pc = "Walk"
    /\ current_date > last_date
    /\ LET n == rows_printed(sampled_data)
       IN  /\ table' \in tables(sampled_data, n)
           /\ stdout' = stdout \o [i \in 1..n |-> "row"]
           /\ IF n < Len(sampled_data)
              THEN /\ pc' = "Crashed"
                   /\ exception' = "ZeroDivisionError"
                   /\ stderr' = Append(stderr, "traceback")
                   /\ exit_status' = ExitAfterTraceback
              ELSE /\ pc' = "Plot"
                   /\ UNCHANGED <<stderr, exception, exit_status>>
    /\ UNCHANGED <<argv, zone, months, http_gets, response, fetch_result, all_data, now,
                   filtered_data, last_date, current_date, sampled_data,
                   chart_files>>

\* lines 168-169 and the return of main
Plot ==
    /\ pc = "Plot"
    /\ chart_files' = chart_files \cup {chart_file(plotted_series, months)}
    /\ stdout' = Append(stdout, "saved")
    /\ pc' = "Exited"
    /\ exit_status' = ExitAfterReturn
    /\ UNCHANGED <<argv, zone, months, http_gets, response, fetch_result, all_data, now,
                   filtered_data, last_date, current_date, sampled_data, stderr,
                   table, exception>>

Next == ParseArgs \/ Fetch \/ Filter \/ DisplayStart \/ WalkStep \/ PrintTable \/ Plot

Spec == Init /\ [][Next]_vars

----------------------------------------------------------------------------
(* The command line: every kind of argument list, a few API answers *)

InitParser == InitWith(ParserArgvInputs)

FetchFew == FetchFrom(FewResponses)

NextParser ==
    ParseArgs \/ FetchFew \/ Filter \/ DisplayStart \/ WalkStep \/ PrintTable \/ Plot

ParserSpec == InitParser /\ [][NextParser]_vars

----------------------------------------------------------------------------
(* display_data on its own: any non-empty series sorted by date *)

SamplerDates == {k * HalfDay : k \in 0..MaxSamplerHalfDays}


RECURSIVE SortedDatesOfLen(_)
\* the sequences of n dates that never decrease
SortedDatesOfLen(n) ==
    IF n = 1 THEN {<<d>> : d \in SamplerDates}
    ELSE UNION {{Append(s, d) : d \in {x \in SamplerDates : x >= s[Len(s)]}} :
                  s \in SortedDatesOfLen(n - 1)}

SortedDates(maxlen) == UNION {SortedDatesOfLen(n) : n \in 1..maxlen}

\* series whose records carry the amounts 100, 200, ... cents in order of
\* position: records of equal date stay distinct
NumberedSeries(maxlen) ==
    {[i \in 1..Len(d) |-> [date |-> d[i], tvl |-> 100 * i]] : d \in SortedDates(maxlen)}

\* amounts in cents, a zero amount among them
SamplerTvls == {0, 100}

\* series with every choice of amounts
PricedSeries(maxlen) ==
    UNION {{[i \in 1..Len(d) |-> [date |-> d[i], tvl |-> t[i]]] :
               t \in [1..Len(d) -> SamplerTvls]} : d \in SortedDates(maxlen)}

\* the API body whose processing in the zone UTC gives the series
BodyOf(series) ==
    [i \in 1..Len(series) |->
        [date |-> series[i].date, tvl |-> [cents |-> series[i].tvl, rest |-> "none"]]]

\* the state of a run of main at the call of display_data (line 165) whose
\* fetched records, already in order, all lie inside the window
SamplerInit(series) ==
    /\ pc = "Display"
    /\ zone = Utc
    /\ months \in MonthChoices
    /\ argv = MonthArgv(months)
    /\ http_gets = 1
    /\ filtered_data \in series
    /\ response = [kind |-> "ok", body |-> BodyOf(filtered_data)]
    /\ fetch_result = "list"
    /\ all_data = filtered_data
    /\ now = filtered_data[1].date + timedelta_days(30 * months)
    /\ last_date = 0
    /\ current_date = 0
    /\ sampled_data = <<>>
    /\ stdout = <<"fetching">>
    /\ stderr = <<>>
    /\ table = <<>>
    /\ chart_files = {}
    /\ exception = "none"
    /\ exit_status = -1

InitSampler == SamplerInit(NumberedSeries(MaxSeries))

InitFairSampler == SamplerInit(PricedSeries(MaxFairSeries))

NextSampler == DisplayStart \/ WalkStep \/ PrintTable

SamplerSpec == InitSampler /\ [][NextSampler]_vars

\* the loop runs on one thread with nothing to wait for: a step that can be
\* taken is taken
FairSamplerSpec == InitFairSampler /\ [][NextSampler]_vars /\ WF_vars(NextSampler)

----------------------------------------------------------------------------
(* Properties *)

Terminated == pc \in {"Exited", "Crashed"}

\* the fetch returned a non-empty list
FetchedSeries == fetch_result = "list" /\ all_data # <<>>

\* filter_data_by_months has returned in this run
Filtered == FetchedSeries /\ pc \notin {"ParseArgs", "Fetch", "Filter"}

\* now - 30*M days
CutoffDate == now - 30 * months * SecondsPerDay

\* number of occurrences of record r in series s
Count(r, s) == Cardinality({i \in 1..Len(s) : s[i] = r})

Records(s) == {s[i] : i \in 1..Len(s)}

InWindow(s) == {i \in 1..Len(s) : s[i].date >= CutoffDate}

\* month counts handed to filter_data_by_months on its own
AnyMonths == {0, 1, 3, 6, 12, 24}

\* C1: for any month count M, filter_data_by_months returns exactly the input
\* records whose date is >= now - 30*M days: each as often as the input holds
\* it, none from before the cutoff, and an empty list for an empty input; the
\* list main goes on with holds the same records.
C1_FilterExact ==
    Filtered =>
        /\ \A m \in AnyMonths \cup {months} :
             LET out == filter_data_by_months(all_data, m, now)
                 cutoff == now - 30 * m * SecondsPerDay
             IN  /\ \A i \in 1..Len(out) : out[i].date >= cutoff
                 /\ \A r \in Records(all_data) :
                      Count(r, out) = IF r.date >= cutoff THEN Count(r, all_data) ELSE 0
                 /\ Len(out) = Cardinality({i \in 1..Len(all_data) : all_data[i].date >= cutoff})
                 /\ filter_data_by_months(<<>>, m, now) = <<>>
        /\ Len(filtered_data) = Cardinality(InWindow(all_data))
        /\ \A r \in Records(all_data) :
             Count(r, filtered_data) = IF r.date >= CutoffDate THEN Count(r, all_data) ELSE 0

\* a record before the cutoff, one exactly on it and one after it were filtered
C1_Witness ==
    /\ Filtered
    /\ \E i \in 1..Len(all_data) : all_data[i].date < CutoffDate
    /\ \E i \in 1..Len(all_data) : all_data[i].date = CutoffDate
    /\ \E i \in 1..Len(all_data) : all_data[i].date > CutoffDate
    /\ Len(filtered_data) = 2

\* C2: after a fetch that failed (connection error, error status, malformed
\* response) or gave an empty list, no exception has left the fetcher, the
\* run has ended by main returning, and neither the table nor the chart file
\* exists; a table line or a chart file exists only after a fetch that
\* returned a non-empty list.
C2_FailedFetchStops ==
    /\ response.kind \in FailureKinds => fetch_result = "None"
    /\ (fetch_result = "None" \/ (fetch_result = "list" /\ all_data = <<>>)) =>
         /\ pc = "Exited"
         /\ exception = "none"
         /\ exit_status = ExitAfterReturn
         /\ table = <<>>
         /\ \A i \in 1..Len(stdout) : stdout[i] \notin {"title", "columns", "rule", "row"}
         /\ chart_files = {}
    /\ (table # <<>> \/ chart_files # {} \/ \E i \in 1..Len(stdout) : stdout[i] = "title") =>
         (response.kind = "ok" /\ fetch_result = "list" /\ all_data # <<>>)

\* a run whose GET was answered with an error status has ended
C2_Witness ==
    /\ response.kind = "http_error"
    /\ pc = "Exited"
    /\ stdout = <<"fetching", "error">>

\* the arguments int() converts to 3, 6 or 12
MonthTokens(a) ==
    {i \in 1..Len(a) : IsIntLiteral(a[i]) /\ int(a[i]) \in {3, 6, 12}}

\* the month argument is missing or invalid: no argument is a month count
NoValidMonth(a) == MonthTokens(a) = {}

\* C3: the GET is issued at most once in a run and only after the month
\* argument has parsed as 3, 6 or 12; a run whose month argument is missing or
\* invalid issues no GET, prints no table and writes no chart file.
C3_FetchOnlyAfterValidMonths ==
    /\ http_gets <= 1
    /\ http_gets > 0 =>
         /\ months \in {3, 6, 12}
         /\ \E i \in MonthTokens(argv) : int(argv[i]) = months
    /\ (pc \notin {"ParseArgs", "Fetch"} /\ argv \in ArgvInputs) => http_gets = 1
    /\ NoValidMonth(argv) =>
         /\ http_gets = 0
         /\ response = NoResponse
         /\ table = <<>>
         /\ chart_files = {}
         /\ pc \in {"ParseArgs", "Exited"}

\* a run with the month argument 5 has ended
C3_Witness ==
    /\ argv = << <<53>> >>
    /\ pc = "Exited"
    /\ http_gets = 0

\* C4: a run whose month argument is missing or not in {3, 6, 12}, and that
\* was not asked for the help text, ends, once the arguments are parsed, with
\* a non-zero exit status.
C4_InvalidMonthExitsNonZero ==
    (NoValidMonth(argv) /\ pc # "ParseArgs" /\ stdout # <<"help">>) =>
        (Terminated /\ exit_status # 0)


\* C5: a walk position adds its nearest record to the sampled output only if
\* the record is at most one day (24 hours) away from the position, before or
\* after it.
C5_ToleranceOneDay ==
    [][(pc = "Walk" /\ Len(sampled_data') = Len(sampled_data) + 1) =>
          Abs(sampled_data'[Len(sampled_data')].date - current_date) <= SecondsPerDay]_vars

\* C6: when the fetch returned a non-empty list whose records all lie before
\* the cutoff, display_data's indexing raises IndexError, the exception leaves
\* main (exit status of a traceback) and no chart file is written.
C6_EmptyWindowRaises ==
    (Filtered /\ \A i \in 1..Len(all_data) : all_data[i].date < CutoffDate) =>
        /\ filtered_data = <<>>
        /\ chart_files = {}
        /\ table = <<>>
        /\ \/ pc = "Display" /\ exception = "none"
           \/ /\ pc = "Crashed"
              /\ exception = "IndexError"
              /\ exit_status = ExitAfterTraceback

\* such a run has crashed
C6_Witness ==
    /\ FetchedSeries
    /\ Len(all_data) >= 2
    /\ pc = "Crashed"
    /\ exception = "IndexError"

\* the records of s from the cutoff on, in ascending order of date, records of
\* equal date in their order in s
RECURSIVE WindowSorted(_)
WindowSorted(s) ==
    IF InWindow(s) = {} THEN <<>>
    ELSE LET first == CHOOSE i \in InWindow(s) :
                        \A j \in InWindow(s) :
                            s[i].date < s[j].date \/ (s[i].date = s[j].date /\ i <= j)
         IN  <<s[first]>> \o
             WindowSorted([k \in 1..Len(s) - 1 |-> IF k < first THEN s[k] ELSE s[k + 1]])

\* C7: the chart's points are the full filtered and sorted series, one point
\* per record in the same order, for each month count, whatever display_data
\* sampled; display_data leaves the series it was given unchanged.
C7_ChartPlotsFilteredSeries ==
    Filtered =>
        LET series == WindowSorted(all_data)
        IN  /\ filtered_data = series
            /\ \A f \in chart_files :
                 /\ Len(f.points) = Len(series)
                 /\ \A i \in 1..Len(series) :
                      /\ f.points[i].date = series[i].date
                      /\ f.points[i].tvl = [amount |-> series[i].tvl, per |-> "1e9"]
                 /\ f.name = <<"eth_tvl_", months, "m.png">>
            /\ Cardinality(chart_files) <= 1
            /\ (pc = "Exited") => chart_files # {}

\* a chart was written in a run whose table sampled fewer records than the
\* series holds
C7_Witness ==
    /\ chart_files # {}
    /\ Len(filtered_data) = 3
    /\ Len(sampled_data) = 1
    /\ months = 6

\* the fetched records lie exactly one day apart and their amounts are
\* positive and rise with the date; the earliest lies before the cutoff
DailyRising(s) ==
    /\ \A i, j \in 1..Len(s) : i # j => s[i].date # s[j].date
    /\ \E i \in 1..Len(s) :
         {s[j].date : j \in 1..Len(s)} =
             {s[i].date + k * SecondsPerDay : k \in 0..Len(s) - 1}
    /\ \A i \in 1..Len(s) : s[i].tvl > 0
    /\ \A i, j \in 1..Len(s) : s[i].date < s[j].date => s[i].tvl < s[j].tvl
    /\ \E i \in 1..Len(s) : s[i].date < CutoffDate

\* C8: with months = 3 and such a fetched series, the finished table has
\* exactly one row for each record inside the window, in order of date, the
\* first row shows the placeholder and every later row a positive change.
C8_DailyTableOneRowPerRecord ==
    (Filtered /\ months = 3 /\ DailyRising(all_data) /\ pc \in {"Plot", "Exited", "Crashed"}) =>
        /\ Len(table) = Cardinality(InWindow(all_data))
        /\ \A i \in InWindow(all_data) :
             Cardinality({k \in 1..Len(table) :
                            /\ table[k].date = all_data[i].date \div SecondsPerDay
                            /\ table[k].tvl = all_data[i].tvl}) = 1
        /\ \A k \in 1..Len(table) - 1 : table[k].date < table[k + 1].date
        /\ \A k \in 1..Len(table) :
             IF k = 1 THEN table[k].placeholder
             ELSE ~table[k].placeholder /\ table[k].sign = 1 /\ ~table[k].minus
        /\ pc = "Crashed" => table = <<>>

\* such a run has printed three rows
C8_Witness ==
    /\ Filtered
    /\ months = 3
    /\ DailyRising(all_data)
    /\ pc = "Exited"
    /\ Len(table) = 3
    /\ Len(all_data) = 4

\* C9: the sampled output is in chronological order: no sampled record is
\* dated before the sampled record in front of it (a record may repeat).
C9_SampledChronological ==
    \A i \in 1..Len(sampled_data) - 1 : sampled_data[i].date <= sampled_data[i + 1].date

\* a finished walk sampled a record twice running and then a later one
C9_Witness ==
    /\ pc = "Plot"
    /\ Len(sampled_data) >= 3
    /\ \E i \in 1..Len(sampled_data) - 1 : sampled_data[i] = sampled_data[i + 1]
    /\ \E i \in 1..Len(sampled_data) - 1 : sampled_data[i].date < sampled_data[i + 1].date

\* C10: the walk over a non-empty sorted series ends, and at its end the
\* sampled output is non-empty and starts with the first record of the series,
\* whose row, with the placeholder, is the first row of the table.
C10_WalkEndsWithFirstRecord ==
    (pc = "Walk") ~>
        (/\ pc \in {"Plot", "Crashed"}
         /\ sampled_data # <<>>
         /\ sampled_data[1] = filtered_data[1]
         /\ table # <<>>
         /\ table[1].placeholder
         /\ table[1].date = filtered_data[1].date \div SecondsPerDay
         /\ table[1].tvl = filtered_data[1].tvl)

\* a walk of several positions has ended and its table is printed
C10_Witness ==
    /\ pc = "Plot"
    /\ months = 12
    /\ Len(sampled_data) >= 2
    /\ table[1].placeholder

====
